---- MODULE Spec2Model ----
(***************************************************************************)
(* A model of dspygen's structured-instance synthesis:                     *)
(*   - GenPydanticInstance (generate, validate, one correction attempt),   *)
(*   - get_model_source (the schema introspector).                         *)
(* Source: src/src/dspygen/experiments/gen_pydantic_instance.py            *)
(***************************************************************************)
EXTENDS Integers, Sequences, FiniteSets, TLC

\* ------------------------------------------------------------------ bounds

\* Number of forward() calls made on one GenPydanticInstance.
MaxCalls == 2

\* Number of annotated fields in a schema graph.
MaxRefs == 2

\* ------------------------------------------------------- program constants

\* Field(..., min_length=3) of every field of the target schema.
MinLength == 3

\* Python's None.
None == "None"

\* EventStormingDomainSpecificationModel.__name__
ModelName == "EventStormingDomainSpecificationModel"

\* The declared fields of the target schema (all `list[str]`, required,
\* min_length=3); two of them are kept.
SchemaFields == {"domain_event_classnames", "external_event_classnames"}

\* A key that is no field of the schema.
UnknownKey == "not_a_field"

\* The threads that may call forward() on the module.
Threads == {1, 2}

\* The prompts a caller passes.
Prompts == {"p1", "p2"}

\* ------------------------------------------------------- candidate texts

\* The values a candidate gives a key: a list of strings of some length, or
\* a plain string.
ListValue(n) == [type |-> "list", len |-> n]
StrValue == [type |-> "str", len |-> 0]
Values == {ListValue(MinLength), ListValue(MinLength - 1), StrValue}

NoItems == [k \in {} |-> StrValue]

\* Raw texts that are a dict literal: any subset of the keys, each with a value.
DictTexts ==
  { [syntax |-> "dict", items |-> d] :
      d \in { e \in UNION { [ks -> Values] : ks \in SUBSET (SchemaFields \cup {UnknownKey}) } :
                UnknownKey \in DOMAIN e => e[UnknownKey] = StrValue } }

\* Raw texts that are not a dict literal: a list literal ("[1, 2]"), an
\* expression that is no literal ("dict(a=1)"), and text that is not Python
\* at all ("{'a': ").
OtherTexts ==
  { [syntax |-> "list", items |-> NoItems],
    [syntax |-> "call", items |-> NoItems],
    [syntax |-> "broken", items |-> NoItems] }

Candidates == DictTexts \cup OtherTexts

NoText == [syntax |-> None, items |-> NoItems]

\* ----------------------------------------------------------------- errors

NoError == [type |-> None, errors |-> {}]
SyntaxErr == [type |-> "SyntaxError", errors |-> {}]
ValueErr == [type |-> "ValueError", errors |-> {}]
ValidationErr(errs) == [type |-> "ValidationError", errors |-> errs]

\* ast.literal_eval: the value of a literal, ValueError for an expression that
\* is no literal, SyntaxError for text that does not parse.
eval_dict_str(text) ==
  CASE text.syntax = "broken" -> [exc |-> SyntaxErr, kind |-> None, items |-> NoItems]
    [] text.syntax = "call"   -> [exc |-> ValueErr, kind |-> None, items |-> NoItems]
    [] text.syntax = "list"   -> [exc |-> NoError, kind |-> "list", items |-> NoItems]
    [] OTHER                  -> [exc |-> NoError, kind |-> "dict", items |-> text.items]

\* The errors pydantic collects for a mapping against the schema: one per
\* declared field that is missing, is no list, or is too short. Keys that are
\* no field of the schema are ignored (pydantic's default, extra="ignore": the
\* schema class sets no model_config).
FieldErrors(items) ==
  { <<f, "missing">> : f \in SchemaFields \ DOMAIN items }
  \cup { <<f, "list_type">> : f \in { g \in SchemaFields \cap DOMAIN items : items[g].type # "list" } }
  \cup { <<f, "too_short">> : f \in { g \in SchemaFields \cap DOMAIN items :
                                         items[g].type = "list" /\ items[g].len < MinLength } }

\* The instance built from a mapping: the declared fields only.
Instance(items) == [f \in SchemaFields |-> items[f]]

NoInstance == [f \in {} |-> StrValue]

\* self.model.model_validate(value): an instance, or ValidationError.
model_validate(value) ==
  IF value.kind # "dict"
    THEN [exc |-> ValidationErr({<<"", "model_type">>}), inst |-> NoInstance]
    ELSE IF FieldErrors(value.items) # {}
      THEN [exc |-> ValidationErr(FieldErrors(value.items)), inst |-> NoInstance]
      ELSE [exc |-> NoError, inst |-> Instance(value.items)]

\* self.model.model_validate(eval_dict_str(output)): the first exception of
\* the two calls, or the instance.
ParseAndValidate(text) ==
  IF eval_dict_str(text).exc # NoError
    THEN [exc |-> eval_dict_str(text).exc, inst |-> NoInstance]
    ELSE model_validate(eval_dict_str(text))

\* ------------------------------------------------------------------ state

VARIABLES
  validation_error,  \* self.validation_error of the module
  model_sources,     \* self.model_sources of the module
  call,              \* per thread: the forward() call it is in, or was last in
  ncalls             \* forward() calls started so far

synthVars == <<validation_error, model_sources, call, ncalls>>

\* The schema introspector's state.
VARIABLES
  bases,         \* model.__bases__ that are schema classes, per class
  annotations,   \* model.__annotations__ (the types, in declaration order)
  already_seen,  \* the set shared by the recursive calls
  stack,         \* the active calls of get_model_source, innermost last
  dstate,        \* "idle", "build", "run", "done" or "RecursionError"
  entered,       \* per class: how often line 160 (inspect.getsource) ran
  via,           \* per class: the reference it was entered through
  steps,         \* loop iterations and returns executed since the call
  description,   \* the text the outermost call returned
  caller         \* what the caller of get_model_source passed and got before

describeVars ==
  <<bases, annotations, already_seen, stack, dstate, entered, via, steps, description,
    caller>>

NoFailure == [type |-> None, model |-> None, validation_error |-> NoError]

IdleCall ==
  [ pc |-> "idle", prompt |-> None, requests |-> <<>>, output |-> NoText,
    corrected_output |-> NoText, attempt |-> 0, valid |-> FALSE,
    result |-> NoInstance, raised |-> NoFailure, reasons |-> <<>> ]

\* The state after GenPydanticInstance.__init__ on the (flat) target schema.
InitSynth ==
  /\ validation_error = NoError
  /\ model_sources = <<ModelName>>
  /\ call = [t \in Threads |-> IdleCall]
  /\ ncalls = 0

\* ------------------------------------------------------------- requests

\* The keyword arguments of self.generate(...).
GenerateRequest(prompt, sources) ==
  [ sig |-> "PromptToPydanticInstanceSignature",
    kwargs |-> [ prompt |-> prompt,
                 root_pydantic_model_class_name |-> ModelName,
                 pydantic_model_definitions |-> sources ] ]

\* A correction request built without the caller's prompt.
CorrectionRequest_PromptDropped(prompt, sources, verr) ==
  [ sig |-> "PromptToPydanticInstanceErrorSignature",
    kwargs |-> [ prompt |-> None,
                 root_pydantic_model_class_name |-> ModelName,
                 pydantic_model_definitions |-> sources,
                 error |-> [prefix |-> "str(error)", text |-> verr] ] ]

\* The keyword arguments of self.correct_generate(...); error is the f-string
\* "str(error){self.validation_error}".
CorrectionRequest(prompt, sources, verr) ==
  [ sig |-> "PromptToPydanticInstanceErrorSignature",
    kwargs |-> [ prompt |-> prompt,
                 root_pydantic_model_class_name |-> ModelName,
                 pydantic_model_definitions |-> sources,
                 error |-> [prefix |-> "str(error)", text |-> verr] ] ]

\* --------------------------------------------------------------- forward

\* validate_root_model with the `return isinstance(...)` lost: no text passes.
validate_root_model_NeverTrue(text, old_error) ==
  IF ParseAndValidate(text).exc = NoError
    THEN [ret |-> FALSE, validation_error |-> old_error]
    ELSE [ret |-> FALSE, validation_error |-> ParseAndValidate(text).exc]

\* validate_root_model with the assignment to self.validation_error lost.
validate_root_model_ErrorNotStored(text, old_error) ==
  [ret |-> ParseAndValidate(text).exc = NoError, validation_error |-> old_error]

\* validate_root_model storing an error only while none is stored yet.
validate_root_model_FirstErrorKept(text, old_error) ==
  IF ParseAndValidate(text).exc = NoError
    THEN [ret |-> TRUE, validation_error |-> old_error]
    ELSE [ret |-> FALSE,
          validation_error |-> IF old_error = NoError
                                 THEN ParseAndValidate(text).exc ELSE old_error]

\* validate_root_model: True when the text parses and validates; otherwise
\* the exception is stored in self.validation_error and False is returned.
validate_root_model(text, old_error) ==
  IF ParseAndValidate(text).exc = NoError
    THEN [ret |-> TRUE, validation_error |-> old_error]
    ELSE [ret |-> FALSE, validation_error |-> ParseAndValidate(text).exc]

\* An Assert that never raises.
DspyAssertRaises_Never(result) == FALSE

\* dspy's Assert(result, msg) raises an AssertionError when result is False.
DspyAssertRaises(result) == ~result

\* The text the current attempt of a call validates.
CurrentText(c) == IF c.attempt = 1 THEN c.output ELSE c.corrected_output

Finished(c) == c.pc \in {"done", "raised"}

\* forward, lines 112-118: the first generation call returns `text`.
Generate(t, prompt, text) ==
  /\ call[t].pc = "idle" \/ Finished(call[t])
  /\ ncalls < MaxCalls
  /\ ncalls' = ncalls + 1
  /\ call' = [call EXCEPT ![t] =
       [IdleCall EXCEPT !.pc = "validate", !.prompt = prompt, !.attempt = 1,
                        !.requests = <<GenerateRequest(prompt, model_sources)>>,
                        !.output = text]]
  /\ UNCHANGED <<validation_error, model_sources>>
  /\ UNCHANGED describeVars

\* forward, line 112: the first generation call fails (transport error,
\* timeout); it is outside the try block, so the exception leaves forward.
GenerateFails(t, prompt) ==
  /\ call[t].pc = "idle" \/ Finished(call[t])
  /\ ncalls < MaxCalls
  /\ ncalls' = ncalls + 1
  /\ call' = [call EXCEPT ![t] =
       [IdleCall EXCEPT !.pc = "raised", !.prompt = prompt, !.attempt = 1,
                        !.requests = <<GenerateRequest(prompt, model_sources)>>,
                        !.raised = [NoFailure EXCEPT !.type = "TransportError"]]]
  /\ UNCHANGED <<validation_error, model_sources>>
  /\ UNCHANGED describeVars

\* validate_output, line 101: the call of validate_root_model.
ValidateRootModel(t) ==
  /\ call[t].pc = "validate"
  /\ LET r == validate_root_model(CurrentText(call[t]), validation_error)
         own == ParseAndValidate(CurrentText(call[t])).exc
     IN /\ validation_error' = r.validation_error
        /\ call' = [call EXCEPT ![t].pc = "assert", ![t].valid = r.ret,
                                ![t].reasons = Append(@, own)]
  /\ UNCHANGED <<model_sources, ncalls>>
  /\ UNCHANGED describeVars

\* validate_output, lines 100-106, after validate_root_model returned: the
\* Assert with its message, then the instance; and what forward does with the
\* outcome (line 121 returns it, line 122 catches the first AssertionError, the
\* second one leaves forward from line 133).
ValidateOutput(t) ==
  /\ call[t].pc = "assert"
  /\ LET c == call[t]
     IN call' = [call EXCEPT ![t] =
          IF ~DspyAssertRaises(c.valid)
            THEN [c EXCEPT !.pc = "done",
                           !.result = ParseAndValidate(CurrentText(c)).inst]
            ELSE IF c.attempt = 1
              THEN [c EXCEPT !.pc = "correct"]
              ELSE [c EXCEPT !.pc = "raised",
                             !.raised = [type |-> "AssertionError", model |-> ModelName,
                                         validation_error |-> validation_error]]]
  /\ UNCHANGED <<validation_error, model_sources, ncalls>>
  /\ UNCHANGED describeVars

\* The correction call made without the call moving on to its second attempt.
CorrectGenerate_AttemptNotCounted(t, text) ==
  /\ call[t].pc = "correct"
  /\ call' = [call EXCEPT ![t].pc = "validate",
                          ![t].output = text,
                          ![t].requests = Append(@,
                             CorrectionRequest(call[t].prompt, model_sources, validation_error))]
  /\ UNCHANGED <<validation_error, model_sources, ncalls>>
  /\ UNCHANGED describeVars

\* forward, lines 126-131: the correction call returns `text`.
CorrectGenerate(t, text) ==
  /\ call[t].pc = "correct"
  /\ call' = [call EXCEPT ![t].pc = "validate", ![t].attempt = 2,
                          ![t].corrected_output = text,
                          ![t].requests = Append(@,
                             CorrectionRequest(call[t].prompt, model_sources, validation_error))]
  /\ UNCHANGED <<validation_error, model_sources, ncalls>>
  /\ UNCHANGED describeVars

\* forward, line 126: the correction call fails; it runs inside the except
\* handler, so the exception leaves forward.
CorrectGenerateFails(t) ==
  /\ call[t].pc = "correct"
  /\ call' = [call EXCEPT ![t].pc = "raised", ![t].attempt = 2,
                          ![t].requests = Append(@,
                             CorrectionRequest(call[t].prompt, model_sources, validation_error)),
                          ![t].raised = [NoFailure EXCEPT !.type = "TransportError"]]
  /\ UNCHANGED <<validation_error, model_sources, ncalls>>
  /\ UNCHANGED describeVars

\* ------------------------------------------------- the schema introspector

\* The schema classes of a schema graph; Root is the class get_model_source
\* is called on.
Models == {"A", "B", "C", "D"}
Root == "A"

\* The "\n\n" between two renderings.
Sep == "<blank line>"

\* A field annotation as get_model_source sees it: a schema class ("model"),
\* a list of a schema class ("list"), or a type that is neither, such as
\* `str` or `list[str]` ("plain").
Annotation(kind, of) == [kind |-> kind, of |-> of]
FollowedAnnotations == { Annotation(k, m) : k \in {"model", "list"}, m \in Models }
PlainAnnotations == { Annotation("plain", None) }

\* The class that is referred to as `X | None` or `dict[str, X]`.
WrappedTargets == {"B"}

\* A field annotated with a schema class or None (`catch_all: CatchAll | None`).
OptionalAnnotations == { Annotation("optional", m) : m \in WrappedTargets }

\* A field annotated with a dict whose values are of a schema class
\* (`definitions: dict[str, Decision]`).
DictAnnotations == { Annotation("dict", m) : m \in WrappedTargets }

\* The base classes a schema graph can have: Python builds a class only from
\* classes that exist already, and refuses an inconsistent MRO. D takes no
\* part in the inheritance.
BaseChoices ==
  { b \in [Models -> {<<>>, <<"B">>, <<"C">>, <<"B", "C">>, <<"C", "B">>}] :
      /\ b["D"] = <<>>
      /\ b["C"] = <<>>
      /\ b["B"] \in {<<>>, <<"C">>}
      /\ ~(b["A"] = <<"C", "B">> /\ b["B"] = <<"C">>) }

NoVia == [parent |-> None, kind |-> None, idx |-> 0]

\* A caller that has made no call yet: whether it passes a set of its own
\* as already_seen and what that set held, whether its next call is its second
\* one, and the text and the set its first call left.
NoCaller ==
  [supplied |-> FALSE, initial |-> {}, again |-> FALSE, first |-> <<>>, first_seen |-> {}]

\* A schema graph with base classes `b` and no fields yet, and no call made.
DescribeStart(state, b) ==
  /\ bases = b
  /\ annotations = [m \in Models |-> <<>>]
  /\ already_seen = {}
  /\ stack = <<>>
  /\ dstate = state
  /\ entered = [m \in Models |-> 0]
  /\ via = [m \in Models |-> NoVia]
  /\ steps = 0
  /\ description = <<>>
  /\ caller = NoCaller

NumRefs ==
  Len(annotations["A"]) + Len(annotations["B"]) + Len(annotations["C"])
  + Len(annotations["D"])

Range(seq) == { seq[i] : i \in 1..Len(seq) }

\* The classes a class refers to in a way get_model_source follows: its
\* schema base classes, and the schema classes its fields are annotated with
\* directly or as list items.
Followed(m) ==
  Range(bases[m])
  \cup { a.of : a \in { x \in Range(annotations[m]) :
                          x.kind \in {"model", "list"} /\ x.of \in Models } }

RECURSIVE ReachIn(_, _)
ReachIn(S, n) ==
  IF n = 0 THEN S ELSE ReachIn(S \cup UNION { Followed(m) : m \in S }, n - 1)

\* The classes reachable from the classes S.
ReachFrom(S) == ReachIn(S, Cardinality(Models))
Reachable == ReachFrom({Root})

\* Python's recursion limit, scaled to the graph: deeper than this raises
\* RecursionError.
RecursionLimit == Cardinality(Models) + 1

\* already_seen never updated.
SeenAfterEntry_NotAdded(seen, m) == seen

\* line 158: already_seen.add(model)
SeenAfterEntry(seen, m) == seen \cup {m}

\* The base source computed but not put into the source.
PrependBase_Dropped(source, base_source) == source

\* lines 166-167: a non-empty base source goes in front of the source so far.
PrependBase(source, base_source) ==
  IF base_source # <<>> THEN base_source \o <<Sep>> \o source ELSE source

\* The field source put in front of the source, as for a base class.
AppendField_InFront(source, field_source) == field_source \o <<Sep>> \o source

\* lines 176 and 182: source += "\n\n" + field_source
AppendField(source, field_source) == source \o <<Sep>> \o field_source

\* lines 174 and 180: issubclass(type, BaseModel) and type not in already_seen
ShouldFollow(of, seen) == of \in Models /\ of \notin seen

\* A frame with its loop position moved past the bases when they are done.
Normalize(f) ==
  IF f.phase = "bases" /\ f.idx > Len(bases[f.model])
    THEN [f EXCEPT !.phase = "fields", !.idx = 1]
    ELSE f

\* lines 158-160: the frame of a call that passed the already_seen check.
NewFrame(m) ==
  Normalize([model |-> m, phase |-> "bases", idx |-> 1, source |-> <<m>>, waiting |-> "no"])

Top == stack[Len(stack)]

\* The calling frame after the call it waits for returned `source`: lines
\* 166-167 for a base class, lines 176 and 182 for a field (for a list the
\* try block of lines 179-185 follows, where issubclass(list[X], BaseModel)
\* raises the TypeError that is ignored); then the next loop iteration.
Resume(f, source) ==
  Normalize([f EXCEPT !.waiting = "no", !.idx = @ + 1,
                      !.source = IF f.waiting = "base"
                                   THEN PrependBase(@, source)
                                   ELSE AppendField(@, source)])

\* A call get_model_source(m, already_seen) made by the top frame through a
\* reference of `kind`, lines 153-160: the empty string at once when m
\* was seen, else a new frame.
EnterCall(m, kind) ==
  IF m \in already_seen
    THEN /\ stack' = [stack EXCEPT ![Len(stack)] = Resume([Top EXCEPT !.waiting = kind], <<>>)]
         /\ UNCHANGED <<already_seen, entered, via, dstate>>
    ELSE IF Len(stack) >= RecursionLimit
      THEN /\ dstate' = "RecursionError"
           /\ stack' = <<>>
           /\ UNCHANGED <<already_seen, entered, via>>
      ELSE /\ already_seen' = SeenAfterEntry(already_seen, m)
           /\ entered' = [entered EXCEPT ![m] = @ + 1]
           /\ via' = [via EXCEPT ![m] = [parent |-> Top.model, kind |-> kind, idx |-> Top.idx]]
           /\ stack' = Append([stack EXCEPT ![Len(stack)].waiting = kind], NewFrame(m))
           /\ UNCHANGED dstate

\* A class that the description can reach gets one more annotated field
\* (building the schema graph; the fields of other classes are never read).
AddAnnotation(m, a) ==
  /\ dstate = "build"
  /\ NumRefs < MaxRefs
  /\ m \in Reachable
  /\ annotations' = [annotations EXCEPT ![m] = Append(@, a)]
  /\ UNCHANGED <<bases, already_seen, stack, dstate, entered, via, steps, description, caller>>
  /\ UNCHANGED synthVars

\* get_model_source(Root): lines 153-160 of the outermost call, with no
\* already_seen given.
Describe ==
  /\ dstate = "build"
  /\ dstate' = "run"
  /\ already_seen' = SeenAfterEntry({}, Root)
  /\ entered' = [entered EXCEPT ![Root] = @ + 1]
  /\ via' = [via EXCEPT ![Root] = [parent |-> None, kind |-> "root", idx |-> 0]]
  /\ stack' = <<NewFrame(Root)>>
  /\ steps' = 0
  /\ UNCHANGED <<bases, annotations, description, caller>>
  /\ UNCHANGED synthVars

\* lines 163-165: the next base class; every base in `bases` is a schema
\* class, so the recursive call is made.
FollowBase ==
  /\ dstate = "run" /\ stack # <<>>
  /\ Top.phase = "bases"
  /\ EnterCall(bases[Top.model][Top.idx], "base")
  /\ steps' = steps + 1
  /\ UNCHANGED <<bases, annotations, description, caller>>
  /\ UNCHANGED synthVars

\* The annotations loop following a field whatever its annotation wraps the
\* class in.
FollowField_AnyKind ==
  /\ dstate = "run" /\ stack # <<>>
  /\ Top.phase = "fields"
  /\ Top.idx <= Len(annotations[Top.model])
  /\ LET a == annotations[Top.model][Top.idx]
     IN /\ ShouldFollow(a.of, already_seen)
        /\ EnterCall(a.of, "field")
  /\ steps' = steps + 1
  /\ UNCHANGED <<bases, annotations, description, caller>>
  /\ UNCHANGED synthVars

\* lines 170-185, one field whose type is followed: a list of a schema class
\* not yet seen (lines 172-175) or a schema class not yet seen (lines 180-181).
FollowField ==
  /\ dstate = "run" /\ stack # <<>>
  /\ Top.phase = "fields"
  /\ Top.idx <= Len(annotations[Top.model])
  /\ LET a == annotations[Top.model][Top.idx]
     IN /\ a.kind \in {"model", "list"}
        /\ ShouldFollow(a.of, already_seen)
        /\ EnterCall(a.of, "field")
  /\ steps' = steps + 1
  /\ UNCHANGED <<bases, annotations, description, caller>>
  /\ UNCHANGED synthVars

\* lines 170-185, one field whose type is not followed: not a schema class,
\* or a schema class already seen. `X | None` and `dict[str, X]` are no list
\* (line 172) and no class: issubclass raises the TypeError that line 183
\* catches.
SkipField ==
  /\ dstate = "run" /\ stack # <<>>
  /\ Top.phase = "fields"
  /\ Top.idx <= Len(annotations[Top.model])
  /\ LET a == annotations[Top.model][Top.idx]
     IN ~(a.kind \in {"model", "list"} /\ ShouldFollow(a.of, already_seen))
  /\ stack' = [stack EXCEPT ![Len(stack)].idx = @ + 1]
  /\ steps' = steps + 1
  /\ UNCHANGED <<bases, annotations, already_seen, dstate, entered, via, description, caller>>
  /\ UNCHANGED synthVars

\* line 187: return source, to the calling frame or to the caller.
Return ==
  /\ dstate = "run" /\ stack # <<>>
  /\ Top.phase = "fields"
  /\ Top.idx > Len(annotations[Top.model])
  /\ IF Len(stack) = 1
       THEN /\ dstate' = "done"
            /\ description' = Top.source
            /\ stack' = <<>>
       ELSE /\ stack' = [SubSeq(stack, 1, Len(stack) - 1) EXCEPT
                           ![Len(stack) - 1] = Resume(@, Top.source)]
            /\ UNCHANGED <<dstate, description>>
  /\ steps' = steps + 1
  /\ UNCHANGED <<bases, annotations, already_seen, entered, via, caller>>
  /\ UNCHANGED synthVars

\* The default argument kept from one call to the next.
NewSet_SharedDefault(previous) == previous

\* lines 153-154: a call without already_seen gets a set of its own,
\* whatever the set of the previous call holds.
NewSet(previous) == {}

\* An outermost call that replaces the set it was given by an empty one.
TopCall_SetDiscarded(seen) ==
  /\ dstate' = "run"
  /\ already_seen' = SeenAfterEntry({}, Root)
  /\ entered' = [m \in Models |-> IF m = Root THEN 1 ELSE 0]
  /\ via' = [m \in Models |->
              IF m = Root THEN [parent |-> None, kind |-> "root", idx |-> 0]
                          ELSE NoVia]
  /\ stack' = <<NewFrame(Root)>>
  /\ steps' = 0
  /\ UNCHANGED description

\* An outermost call get_model_source(Root, seen), lines 156-160: the empty
\* string at once when Root is in the set, else Root is added and its frame
\* begins.
TopCall(seen) ==
  IF Root \in seen
    THEN /\ dstate' = "done"
         /\ description' = <<>>
         /\ already_seen' = seen
         /\ stack' = <<>>
         /\ steps' = 0
         /\ UNCHANGED <<entered, via>>
    ELSE /\ dstate' = "run"
         /\ already_seen' = SeenAfterEntry(seen, Root)
         /\ entered' = [m \in Models |-> IF m = Root THEN 1 ELSE 0]
         /\ via' = [m \in Models |->
                     IF m = Root THEN [parent |-> None, kind |-> "root", idx |-> 0]
                                 ELSE NoVia]
         /\ stack' = <<NewFrame(Root)>>
         /\ steps' = 0
         /\ UNCHANGED description

\* get_model_source(Root) once more after it returned, again with no
\* already_seen given.
DescribeAgain ==
  /\ dstate = "done"
  /\ ~caller.supplied /\ ~caller.again
  /\ caller' = [caller EXCEPT !.again = TRUE, !.first = description,
                               !.first_seen = already_seen]
  /\ TopCall(NewSet(already_seen))
  /\ UNCHANGED <<bases, annotations>>
  /\ UNCHANGED synthVars

\* The sets a caller passes as already_seen.
SuppliedSets == { {}, {"B"}, {"C", "D"}, {Root, "B"} }

\* get_model_source(Root, seen) with a set of the caller's.
DescribeWith(seen) ==
  /\ dstate = "build"
  /\ caller' = [caller EXCEPT !.supplied = TRUE, !.initial = seen]
  /\ TopCall(seen)
  /\ UNCHANGED <<bases, annotations>>
  /\ UNCHANGED synthVars

\* get_model_source(Root, seen) once more with the same set object, which
\* holds what the first call left in it.
DescribeWithAgain ==
  /\ dstate = "done"
  /\ caller.supplied /\ ~caller.again
  /\ caller' = [caller EXCEPT !.again = TRUE, !.first = description,
                               !.first_seen = already_seen]
  /\ TopCall(already_seen)
  /\ UNCHANGED <<bases, annotations>>
  /\ UNCHANGED synthVars

\* Calls made one after another by one thread.
SeqThreads == {1}

\* ------------------------------------------------------- specifications

vars ==
  <<validation_error, model_sources, call, ncalls,
    bases, annotations, already_seen, stack, dstate, entered, via, steps, description,
    caller>>

\* forward() calls on one module, one after another.
Init == InitSynth /\ DescribeStart("idle", [m \in Models |-> <<>>])

Next ==
  \/ \E t \in SeqThreads, p \in Prompts, text \in Candidates : Generate(t, p, text)
  \/ \E t \in SeqThreads, p \in Prompts : GenerateFails(t, p)
  \/ \E t \in SeqThreads : ValidateRootModel(t)
  \/ \E t \in SeqThreads : ValidateOutput(t)
  \/ \E t \in SeqThreads, text \in Candidates : CorrectGenerate(t, text)
  \/ \E t \in SeqThreads : CorrectGenerateFails(t)

Spec == Init /\ [][Next]_vars

\* A call that has begun runs on: the interpreter executes the next statement
\* of forward, and the correction call it waits for returns or raises.
Fairness ==
  /\ WF_vars(\E t \in SeqThreads : ValidateRootModel(t))
  /\ WF_vars(\E t \in SeqThreads : ValidateOutput(t))
  /\ WF_vars(\E t \in SeqThreads :
               \/ \E text \in Candidates : CorrectGenerate(t, text)
               \/ CorrectGenerateFails(t))

SpecFair == Init /\ [][Next]_vars /\ Fairness

\* get_model_source on the schema graphs within the bounds.
InitDescribe == InitSynth /\ \E b \in BaseChoices : DescribeStart("build", b)

DescribeStep ==
  \/ FollowBase
  \/ FollowField
  \/ SkipField
  \/ Return

NextDescribe ==
  \/ \E m \in Models, a \in FollowedAnnotations \cup PlainAnnotations : AddAnnotation(m, a)
  \/ Describe
  \/ DescribeStep

SpecDescribe == InitDescribe /\ [][NextDescribe]_vars

\* get_model_source called twice on the same schema graph, each time with no
\* already_seen given.
NextDescribeTwice ==
  \/ \E m \in Models, a \in FollowedAnnotations \cup PlainAnnotations : AddAnnotation(m, a)
  \/ Describe
  \/ DescribeAgain
  \/ DescribeStep

SpecDescribeTwice == InitDescribe /\ [][NextDescribeTwice]_vars

\* get_model_source called with a set of the caller's, and then once more
\* with the same set.
NextDescribeWith ==
  \/ \E m \in Models, a \in FollowedAnnotations \cup PlainAnnotations : AddAnnotation(m, a)
  \/ \E seen \in SuppliedSets : DescribeWith(seen)
  \/ DescribeWithAgain
  \/ DescribeStep

SpecDescribeWith == InitDescribe /\ [][NextDescribeWith]_vars

\* get_model_source on schema graphs whose fields also refer to classes as
\* `X | None` and `dict[str, X]`.
NextDescribeKinds ==
  \/ \E m \in Models,
        a \in FollowedAnnotations \cup OptionalAnnotations \cup DictAnnotations :
          AddAnnotation(m, a)
  \/ Describe
  \/ DescribeStep

SpecDescribeKinds == InitDescribe /\ [][NextDescribeKinds]_vars

\* The texts the generation calls of concurrent callers return: a valid
\* mapping, text that does not parse, and a mapping with a list too short.
ConcCandidates ==
  { [syntax |-> "dict", items |-> [f \in SchemaFields |-> ListValue(MinLength)]],
    [syntax |-> "broken", items |-> NoItems],
    [syntax |-> "dict", items |-> [f \in SchemaFields |-> ListValue(MinLength - 1)]] }

\* forward() calls made by several threads on one module: between two
\* statements of one call any statement of another call may run.
NextConc ==
  \/ \E t \in Threads, p \in Prompts, text \in ConcCandidates : Generate(t, p, text)
  \/ \E t \in Threads, p \in Prompts : GenerateFails(t, p)
  \/ \E t \in Threads : ValidateRootModel(t)
  \/ \E t \in Threads : ValidateOutput(t)
  \/ \E t \in Threads, text \in ConcCandidates : CorrectGenerate(t, text)
  \/ \E t \in Threads : CorrectGenerateFails(t)

SpecConc == Init /\ [][NextConc]_vars

\* ------------------------------------------------------------ properties

TextIsValid(text) == ParseAndValidate(text).exc = NoError

\* The exception validate_root_model catches for a text.
ErrorOf(text) == ParseAndValidate(text).exc

\* An instance of the schema: every declared field, each a list of at least
\* MinLength strings.
IsValidInstance(inst) ==
  /\ DOMAIN inst = SchemaFields
  /\ \A f \in SchemaFields : inst[f].type = "list" /\ inst[f].len >= MinLength

\* The keyword arguments both signatures declare.
BaseInputs == {"prompt", "root_pydantic_model_class_name", "pydantic_model_definitions"}

\* A request carries a candidate text when one of its inputs, other than the
\* ones the first request had already and the error text, is that text.
RequestCarriesText(req, text) ==
  \E k \in DOMAIN req.kwargs \ (BaseInputs \cup {"error"}) : req.kwargs[k] = text

\* C1: when the first text parses and validates, the call makes exactly one
\* generation request, never reaches the correction, and returns the validated
\* instance built from that text.
C1_FirstValidReturnsAfterOneCall ==
  \A t \in Threads :
    LET c == call[t]
    IN (c.output # NoText /\ TextIsValid(c.output)) =>
         /\ Len(c.requests) = 1
         /\ c.pc \in {"validate", "assert", "done"}
         /\ c.pc = "done" => /\ c.result = Instance(c.output.items)
                             /\ IsValidInstance(c.result)

C1_Witness ==
  \E t \in Threads :
    /\ call[t].pc = "done"
    /\ Len(call[t].requests) = 1
    /\ TextIsValid(call[t].output)

\* C2: when the first text is invalid (it does not parse, or it violates the
\* schema) the call goes on to the correction and to nothing else; when the
\* corrected text is valid the call returns the instance built from it, has
\* made exactly two requests, and the second request's error text is the
\* error of the first text.
C2_InvalidThenValidReturnsAfterTwoCalls ==
  \A t \in Threads :
    LET c == call[t]
    IN (c.output # NoText /\ ~TextIsValid(c.output)) =>
         /\ c.attempt = 1 => c.pc \in {"validate", "assert", "correct"}
         /\ (c.corrected_output # NoText /\ TextIsValid(c.corrected_output)) =>
              /\ Len(c.requests) = 2
              /\ c.requests[2].kwargs.error.text = ErrorOf(c.output)
              /\ c.pc \in {"validate", "assert", "done"}
              /\ c.pc = "done" => /\ c.result = Instance(c.corrected_output.items)
                                  /\ IsValidInstance(c.result)

C2_Witness ==
  \E t \in Threads :
    /\ call[t].pc = "done"
    /\ Len(call[t].requests) = 2
    /\ call[t].output.syntax = "broken"
    /\ TextIsValid(call[t].corrected_output)

\* The failure forward raises carries an error reason / a candidate text.
FailureCarriesReason(f, e) == f.validation_error = e
FailureCarriesText(f, text) ==
  \E k \in DOMAIN f \ {"type", "model", "validation_error"} : f[k] = text

\* C3 (as claimed): when both texts are invalid the call ends in the terminal
\* failure after exactly two requests, and the failure carries both texts and
\* both error reasons.
C3_FailureCarriesBothAttempts ==
  \A t \in Threads :
    LET c == call[t]
    IN (/\ Finished(c)
        /\ c.output # NoText /\ ~TextIsValid(c.output)
        /\ c.corrected_output # NoText /\ ~TextIsValid(c.corrected_output)) =>
         /\ c.pc = "raised" /\ c.raised.type = "AssertionError"
         /\ Len(c.requests) = 2
         /\ FailureCarriesReason(c.raised, ErrorOf(c.output))
         /\ FailureCarriesReason(c.raised, ErrorOf(c.corrected_output))
         /\ FailureCarriesText(c.raised, c.output)
         /\ FailureCarriesText(c.raised, c.corrected_output)

\* C4 (as claimed): a first generation call that fails does not end the call;
\* the correction attempt follows.
C4_FirstTransportFailureIsRetried ==
  \A t \in Threads :
    ~(/\ call[t].pc = "raised"
      /\ call[t].raised.type = "TransportError"
      /\ Len(call[t].requests) = 1)

\* C5 (as claimed): whatever forward raises is the terminal failure, raised
\* after both attempts were used.
C5_OnlyTerminalFailureEscapes ==
  \A t \in Threads :
    call[t].pc = "raised" =>
      /\ call[t].raised.type = "AssertionError"
      /\ Len(call[t].requests) = 2

\* C6 (as claimed): a candidate mapping with a key that is no field of the
\* schema never passes validate_root_model.
C6_UnknownKeyFailsValidation ==
  \A t \in Threads :
    LET c == call[t]
    IN (c.pc = "assert" /\ UnknownKey \in DOMAIN CurrentText(c).items) => ~c.valid

\* C7 (as claimed): the correction request contains the original prompt, the
\* schema description of the first request, the raw text of the failed first
\* candidate and the text of its validation error.
C7_CorrectionRequestHasCandidateText ==
  \A t \in Threads :
    LET c == call[t]
    IN Len(c.requests) >= 2 =>
         /\ c.requests[2].kwargs.prompt = c.prompt
         /\ c.requests[2].kwargs.pydantic_model_definitions
              = c.requests[1].kwargs.pydantic_model_definitions
         /\ c.requests[2].kwargs.error.text = ErrorOf(c.output)
         /\ RequestCarriesText(c.requests[2], c.output)

\* C7 (amended): the correction request contains the original prompt, the
\* schema description of the first request and the text of the first
\* candidate's validation error; its inputs are the ones the error signature
\* declares, and none of them is the raw text of the failed candidate.
C7_CorrectionRequestContents ==
  \A t \in Threads :
    LET c == call[t]
    IN Len(c.requests) >= 2 =>
         /\ c.requests[2].kwargs.prompt = c.prompt
         /\ c.requests[2].kwargs.pydantic_model_definitions
              = c.requests[1].kwargs.pydantic_model_definitions
         /\ c.requests[2].kwargs.error.text = ErrorOf(c.output)
         /\ DOMAIN c.requests[2].kwargs = BaseInputs \cup {"error"}
         /\ ~RequestCarriesText(c.requests[2], c.output)

C7_Witness ==
  \E t \in Threads :
    /\ Len(call[t].requests) = 2
    /\ call[t].requests[2].sig = "PromptToPydanticInstanceErrorSignature"
    /\ call[t].prompt = "p2"
    /\ ~TextIsValid(call[t].output)

\* How often a class is rendered in a text.
Count(m, text) == Cardinality({ i \in 1..Len(text) : text[i] = m })

\* Where a class is rendered in the description.
Pos(m) == CHOOSE i \in 1..Len(description) : description[i] = m

\* The classes the fields of a class refer to in a way that is followed.
FieldFollowed(m) ==
  { a.of : a \in { x \in Range(annotations[m]) :
                     x.kind \in {"model", "list"} /\ x.of \in Models } }

\* Some class the description reaches refers back to itself through a field.
HasCycle == \E m \in Reachable : FieldFollowed(m) # {} /\ m \in ReachFrom(FieldFollowed(m))

\* C8: the text get_model_source(Root) returns renders Root and every class
\* reachable from it through base classes, schema-typed fields and
\* list-of-schema fields exactly once, and no other class.
C8_EveryReachableSchemaOnce ==
  dstate = "done" =>
    \A m \in Models : Count(m, description) = IF m \in Reachable THEN 1 ELSE 0

\* A class that is a base class of Root and the type of two of Root's fields,
\* one of them a list.
C8_Witness ==
  /\ dstate = "done"
  /\ \E m \in Range(bases[Root]) :
       /\ Annotation("model", m) \in Range(annotations[Root])
       /\ Annotation("list", m) \in Range(annotations[Root])
       /\ Count(m, description) = 1

\* The loop iterations and returns of a call that enters every class once.
StepBound ==
  Len(bases["A"]) + Len(annotations["A"]) + 1
  + Len(bases["B"]) + Len(annotations["B"]) + 1
  + Len(bases["C"]) + Len(annotations["C"]) + 1
  + Len(bases["D"]) + Len(annotations["D"]) + 1

\* C9: on a schema graph with a cyclic reference no class is entered more
\* than once, the recursion stays within the number of classes, and the call
\* returns: as long as it runs a next step exists, and the steps taken never
\* exceed the iterations and returns of entering every class once.
C9_CyclicGraphTerminates ==
  HasCycle =>
    /\ \A m \in Models : entered[m] <= 1
    /\ dstate # "RecursionError"
    /\ Len(stack) <= Cardinality(Models)
    /\ steps <= StepBound
    /\ dstate = "run" => ENABLED DescribeStep

C9_Witness ==
  /\ dstate = "done"
  /\ HasCycle
  /\ \E m \in Models \ {Root} : m \in Reachable /\ Root \in FieldFollowed(m)

RECURSIVE EnteredUnder(_, _, _)
\* d was entered by the call for m or by a call made, directly or not, by it.
EnteredUnder(d, m, n) ==
  \/ d = m
  \/ n > 0 /\ via[d].parent \in Models /\ EnteredUnder(via[d].parent, m, n - 1)

\* C10 (as claimed): every base class of a rendered class is rendered before
\* it, and every class one of its fields refers to is rendered after it.
C10_BasesBeforeFieldsAfter ==
  dstate = "done" =>
    \A p \in already_seen :
      /\ \A b \in Range(bases[p]) : Pos(b) < Pos(p)
      /\ \A m \in FieldFollowed(p) \ {p} : Pos(m) > Pos(p)

\* C10 (amended): a class is placed relative to the class whose reference
\* first reached it: before it when reached as a base class, after it when
\* reached through a field, and then after everything rendered for the earlier
\* fields of that class.
C10_OrderByFirstReference ==
  dstate = "done" =>
    \A m \in already_seen :
      /\ via[m].kind = "base" => Pos(m) < Pos(via[m].parent)
      /\ via[m].kind = "field" => Pos(m) > Pos(via[m].parent)
      /\ \A n \in already_seen :
           (/\ via[m].kind = "field" /\ via[n].kind = "field"
            /\ via[m].parent = via[n].parent
            /\ via[m].idx < via[n].idx) =>
             \A d \in already_seen :
               EnteredUnder(d, m, Cardinality(Models)) => Pos(d) < Pos(n)

\* Root's first field reaches B, whose base class C is rendered for it;
\* Root's second field reaches D.
C10_Witness ==
  /\ dstate = "done"
  /\ via["B"] = [parent |-> Root, kind |-> "field", idx |-> 1]
  /\ via["C"] = [parent |-> "B", kind |-> "base", idx |-> 1]
  /\ via["D"] = [parent |-> Root, kind |-> "field", idx |-> 2]
  /\ description = <<"A", Sep, "C", Sep, "B", Sep, "D">>

\* C11 (as claimed): under every interleaving of the calls of several threads
\* on one module, the error text in a call's correction request is the error
\* of that call's own first candidate, and the error its terminal failure
\* reports is the error of that call's own corrected candidate.
C11_OwnErrorUnderInterleaving ==
  \A t \in Threads :
    LET c == call[t]
    IN /\ Len(c.requests) >= 2 =>
            c.requests[2].kwargs.error.text = ErrorOf(c.output)
       /\ (c.pc = "raised" /\ c.raised.type = "AssertionError") =>
            c.raised.validation_error = ErrorOf(c.corrected_output)

\* What a call ends with, as a function of the responses it received: the
\* first text (NoText when the generation call failed) and the corrected text.
OutcomeOf(output, corrected_output) ==
  LET transport == [pc |-> "raised", result |-> NoInstance,
                    raised |-> [NoFailure EXCEPT !.type = "TransportError"]]
      done(text) == [pc |-> "done", result |-> Instance(text.items), raised |-> NoFailure]
  IN IF output = NoText THEN transport
     ELSE IF TextIsValid(output) THEN done(output)
     ELSE IF corrected_output = NoText THEN transport
     ELSE IF TextIsValid(corrected_output) THEN done(corrected_output)
     ELSE [pc |-> "raised", result |-> NoInstance,
           raised |-> [type |-> "AssertionError", model |-> ModelName,
                       validation_error |-> ErrorOf(corrected_output)]]

\* C12: in every call of a sequence of calls on one module, the requests sent
\* and the outcome are functions of that call's prompt and of the responses
\* it received, whatever the earlier calls left in self.validation_error: the
\* first request is built from the prompt, the second from the prompt and
\* the error of the call's own first text, and the call ends as its own texts
\* decide.
C12_CallDependsOnOwnInputsOnly ==
  \A t \in Threads :
    LET c == call[t]
    IN /\ Len(c.requests) >= 1 =>
            c.requests[1] = GenerateRequest(c.prompt, <<ModelName>>)
       /\ Len(c.requests) >= 2 =>
            c.requests[2] = CorrectionRequest(c.prompt, <<ModelName>>, ErrorOf(c.output))
       /\ Len(c.requests) <= 2
       /\ Finished(c) =>
            [pc |-> c.pc, result |-> c.result, raised |-> c.raised]
              = OutcomeOf(c.output, c.corrected_output)

\* A later call of the sequence returned after one request while the module
\* still held the error an earlier call had recorded (the call itself
\* recorded none): line 103 read that error into a message nobody saw.
C12_Witness ==
  \E t \in Threads :
    /\ ncalls >= 2
    /\ call[t].pc = "done"
    /\ Len(call[t].requests) = 1
    /\ call[t].reasons = <<NoError>>
    /\ validation_error # NoError

\* C13: a call returns only when the text it generated last parsed and
\* validated, and the instance returned is built from exactly that text: the
\* first text when one request was made, the corrected text (after an invalid
\* first text) when two were made. No instance exists in any other state.
C13_ReturnsOnlyValidatedCandidate ==
  \A t \in Threads :
    LET c == call[t]
        last == IF Len(c.requests) = 1 THEN c.output ELSE c.corrected_output
    IN /\ c.pc = "done" =>
            /\ last # NoText /\ last = CurrentText(c)
            /\ TextIsValid(last)
            /\ FieldErrors(last.items) = {}
            /\ c.result = Instance(last.items)
            /\ IsValidInstance(c.result)
            /\ Len(c.requests) = 2 => ~TextIsValid(c.output)
       /\ c.pc # "done" => c.result = NoInstance

\* The first text was a mapping with one field right and the other too
\* short; the call returned the instance of the corrected text.
C13_Witness ==
  \E t \in Threads :
    /\ call[t].pc = "done"
    /\ Len(call[t].requests) = 2
    /\ call[t].output.syntax = "dict"
    /\ Cardinality(FieldErrors(call[t].output.items)) = 1
    /\ call[t].result = Instance(call[t].corrected_output.items)

\* The steps a call of thread t may take: GENERATING ends in the first
\* VALIDATING (or in the failure of the generation call); a validation ends
\* in DONE when it succeeded, in CORRECTING when it failed for the first text,
\* in FAILED when it failed for the corrected text; CORRECTING ends in the
\* second VALIDATING. Only the two generation calls add a request.
CallOrder(t) ==
  LET c == call[t]
      d == call'[t]
  IN d # c =>
       \/ /\ c.pc = "idle" \/ Finished(c)
          /\ d.pc \in {"validate", "raised"}
          /\ d.attempt = 1 /\ Len(d.requests) = 1
       \/ /\ c.pc = "validate" /\ d.pc = "assert"
          /\ d.attempt = c.attempt /\ d.requests = c.requests
       \/ /\ c.pc = "assert"
          /\ d.attempt = c.attempt /\ d.requests = c.requests
          /\ \/ d.pc = "done" /\ TextIsValid(CurrentText(c))
             \/ d.pc = "correct" /\ ~TextIsValid(c.output) /\ c.attempt = 1
             \/ d.pc = "raised" /\ ~TextIsValid(c.corrected_output) /\ c.attempt = 2
       \/ /\ c.pc = "correct" /\ c.attempt = 1
          /\ d.pc \in {"validate", "raised"}
          /\ d.attempt = 2 /\ Len(d.requests) = 2

\* C15: every step of a call follows the order GENERATING, VALIDATING, at
\* most one CORRECTING and one more VALIDATING, so that CORRECTING follows
\* only a failed validation of the first text and nothing but FAILED follows
\* a failed validation of the corrected text; and every call that has begun
\* eventually ends in DONE or FAILED.
C15_CallEndsAfterAtMostOneCorrection ==
  /\ [][\A t \in Threads : CallOrder(t)]_vars
  /\ \A t \in Threads :
       (call[t].pc \in {"validate", "assert", "correct"}) ~> Finished(call[t])

\* A call that went through both validations and ended in FAILED.
C15_Witness ==
  \E t \in Threads :
    /\ call[t].pc = "raised"
    /\ call[t].attempt = 2
    /\ Len(call[t].reasons) = 2
    /\ Len(call[t].requests) = 2

\* C14: a second call of get_model_source on the same schema graph, like the
\* first one without already_seen, returns the text the first call returned,
\* and it starts from a set that holds nothing of the first call: while it
\* runs its set holds only classes it entered itself.
C14_DescribeTwiceSameText ==
  (~caller.supplied /\ caller.again) =>
    /\ dstate = "done" => /\ description = caller.first
                          /\ already_seen = caller.first_seen
    /\ dstate # "RecursionError"
    /\ already_seen = { m \in Models : entered[m] > 0 }

\* Both calls returned a text of three classes.
C14_Witness ==
  /\ dstate = "done"
  /\ ~caller.supplied /\ caller.again
  /\ Cardinality(caller.first_seen) = 3
  /\ Len(description) = 5

\* The classes a text renders.
Rendered(text) == Range(text) \ {Sep}

\* C16: for a call with a set of the caller's: the set never loses a class;
\* when Root is in the set the call returns the empty text and the set is as
\* it was; otherwise the set on return is what it held at entry plus exactly
\* the classes the text renders, none of which was in the set at entry; and a
\* second call with the same set returns the empty text and leaves the set
\* as the first call left it.
C16_SuppliedSetFrame ==
  caller.supplied =>
    /\ caller.initial \subseteq already_seen
    /\ (dstate = "done" /\ ~caller.again) =>
         IF Root \in caller.initial
           THEN description = <<>> /\ already_seen = caller.initial
           ELSE /\ already_seen = caller.initial \cup Rendered(description)
                /\ Rendered(description) \cap caller.initial = {}
                /\ Root \in Rendered(description)
    /\ (dstate = "done" /\ caller.again) =>
         description = <<>> /\ already_seen = caller.first_seen

\* The caller's set held B; Root has a field of type B and the first call
\* returned a text of two classes without B; the second call returned.
C16_Witness ==
  /\ dstate = "done"
  /\ caller.supplied /\ caller.again
  /\ caller.initial = {"B"}
  /\ Annotation("model", "B") \in Range(annotations[Root])
  /\ Len(caller.first) = 3
  /\ caller.first_seen = {"B"} \cup Rendered(caller.first)

\* The classes reached from Root through base classes, fields annotated with
\* a schema class and fields annotated with a list of a schema class.
RECURSIVE ThreeKindsIn(_, _)
ThreeKindsIn(S, n) ==
  IF n = 0 THEN S
  ELSE ThreeKindsIn(
         S \cup UNION { Range(bases[m]) \cup FieldFollowed(m) : m \in S }, n - 1)

ThreeKindsReach == ThreeKindsIn({Root}, Cardinality(Models))

\* The classes some field refers to as `X | None` or `dict[str, X]`.
Wrapped ==
  { a.of : a \in { x \in UNION { Range(annotations[m]) : m \in Models } :
                     x.kind \in {"optional", "dict"} } }

====
